---------------------------- MODULE Spec2Model ----------------------------
(***************************************************************************)
(* Maze generator (MazeGenerator), tabular Q-learning agent                *)
(* (QLearningAgent) and training page (MazeSolver) of the MazeLearner      *)
(* client.                                                                 *)
(*                                                                         *)
(* SpecMaze  : one construction of a MazeGenerator, stepped through        *)
(*             generateMaze (carving loop, density pass, forced start and  *)
(*             goal, connectivity pass, final check and repair).           *)
(* SpecAgent : one QLearningAgent on a fixed grid, under any sequence of   *)
(*             runEpisode (stepped one loop iteration at a time),          *)
(*             updateParameters, reset and the read-only queries.          *)
(* SpecGreedy: the same agent with explorationRate 0 on small grids, with  *)
(*             more updates per table.                                     *)
(* SpecRepeat: repeated runEpisode calls of one greedy agent from the      *)
(*             start corner of a wall-free grid.                           *)
(* SpecTraining: the MazeSolver page: generateNewMaze, startTraining,      *)
(*             pauseTraining, resetTraining and their timer callbacks,     *)
(*             driving one generator and one agent.  A handler or a timer  *)
(*             callback is one step; the constructor and runEpisode calls  *)
(*             it makes are stepped through while the page waits.          *)
(*                                                                         *)
(* Numbers.  Math.random() is a draw from RandomDraws, in thousandths.     *)
(* wallDensity and explorationRate are thousandths too.  learningRate and  *)
(* discountFactor are halves (1 = 0.5, 2 = 1.0).  Action values are exact  *)
(* rationals stored as integer multiples of 1/Scale.                       *)
(***************************************************************************)
EXTENDS Integers, Sequences, FiniteSets, TLC

VARIABLES
    \* ---- MazeGenerator fields and the locals of generateMaze
    size, wallDensity, maze, visited, stack, currentX, currentY,
    cellX, cellY, connI, pathChecks, repaired, gpc,
    \* ---- QLearningAgent fields
    qTable, learningRate, discountFactor, explorationRate, mazeSize,
    \* ---- the arguments and locals of the runEpisode call in progress
    startPos, goalPos, maxSteps, agentX, agentY, steps, totalReward, path,
    \* ---- control: where the agent's caller is, the update made by the last
    \* loop iteration, the value last returned to the caller, and the number
    \* of updateQValue calls since the table was last empty
    apc, last, ret, updates,
    \* ---- the caller's loop over episodes: the number of runEpisode calls it
    \* has made on the agent
    episodeNo,
    \* ---- the training page (MazeSolver): trainingActiveRef, the training
    \* statistics, the pending timer callbacks, the callback in progress, the
    \* refs being set, and counts of the user's clicks
    trainingActive, stats, timers, dpc, installed, sessions, generations,
    sessionCalls, interrupted

mazeVars == << size, wallDensity, maze, visited, stack, currentX, currentY,
               cellX, cellY, connI, pathChecks, repaired, gpc >>

agentVars == << qTable, learningRate, discountFactor, explorationRate, mazeSize,
                startPos, goalPos, maxSteps, agentX, agentY, steps, totalReward, path,
                apc, last, ret, updates >>

driverVars == << episodeNo, trainingActive, stats, timers, dpc, installed,
                 sessions, generations, sessionCalls, interrupted >>

vars == << mazeVars, agentVars, driverVars >>

----------------------------------------------------------------------------
(* Bounds of the model *)

\* largest maze size constructed
MaxSize == 6

\* largest number of updateQValue calls on one value table under SpecAgent
MaxUpdates == 2

\* largest number of updateQValue calls on one value table under SpecGreedy
MaxGreedyUpdates == 5

\* number of runEpisode calls made in a row under SpecRepeat
MaxEpisodes == 6

\* the step budget of the calls of the 3 x 3 scenario
ScenarioMaxSteps == 50

\* totalEpisodes of the training page (1000 in the page), scaled down
TotalEpisodes == 2

\* the default maxSteps of runEpisode (1000 in the agent), scaled down
DefaultMaxSteps == 4

\* largest number of training sessions started on the page
MaxSessions == 2

\* largest number of mazes requested on the page
MaxGenerations == 2

\* the number of episodes after which the agent of SpecRepeat has settled
SettledAfter == 4

----------------------------------------------------------------------------
(* Shared helpers *)

Max2(a, b) == IF a >= b THEN a ELSE b

Abs(a) == IF a < 0 THEN -a ELSE a

\* the values wallDensity is drawn from, in thousandths (0.0, 0.3, 1.0)
WallDensities == {0, 300, 1000}

\* the values Math.random() is drawn from, in thousandths of [0, 1)
RandomDraws == {0, 150, 250, 500, 999}

\* Math.floor(Math.random() * n) for a draw r in thousandths
FloorRandom(r, n) == (r * n) \div 1000

----------------------------------------------------------------------------
(* MazeGenerator *)

startPosition == [x |-> 0, y |-> 0]

\* a goal computed one cell short of the corner
goalPositionShort == [x |-> size - 2, y |-> size - 2]

goalPosition == [x |-> size - 1, y |-> size - 1]

\* Up, Right, Down, Left
directions == << [dx |-> 0, dy |-> -1], [dx |-> 1, dy |-> 0],
                 [dx |-> 0, dy |-> 1], [dx |-> -1, dy |-> 0] >>

isValidPosition(x, y) == x >= 0 /\ x < size /\ y >= 0 /\ y < size

\* maze[y][x] = v
SetCell(m, x, y, v) == [m EXCEPT ![y] = [@ EXCEPT ![x] = v]]

\* the unvisited cells two steps away from (cx, cy), in direction order
NeighborsFrom(cx, cy, i) ==
    LET d  == directions[i]
        nx == cx + d.dx * 2
        ny == cy + d.dy * 2
    IN  IF isValidPosition(nx, ny) /\ ~visited[ny][nx]
        THEN << [x |-> nx, y |-> ny, wallX |-> cx + d.dx, wallY |-> cy + d.dy] >>
        ELSE << >>

Neighbors(cx, cy) ==
    NeighborsFrom(cx, cy, 1) \o NeighborsFrom(cx, cy, 2) \o
    NeighborsFrom(cx, cy, 3) \o NeighborsFrom(cx, cy, 4)

countAdjacentPaths(m, x, y) ==
    Cardinality({ i \in 1..4 :
        LET newX == x + directions[i].dx
            newY == y + directions[i].dy
        IN  isValidPosition(newX, newY) /\ m[newY][newX] = 0 })

\* Math.max(0.1, (1 - wallDensity) * 0.3), in thousandths
removalProbability == Max2(100, ((1000 - wallDensity) * 3) \div 10)

\* Math.floor(size * 0.1)
numConnections == size \div 10

\* breadth-first search of hasPath: queue of positions, set of visited cells
RECURSIVE hasPathLoop(_, _, _)
hasPathLoop(m, queue, seen) ==
    IF queue = << >> THEN FALSE
    ELSE LET current == Head(queue)
         IN  IF current.x = goalPosition.x /\ current.y = goalPosition.y
             THEN TRUE
             ELSE LET fresh == SelectSeq(
                          [i \in 1..4 |-> [x |-> current.x + directions[i].dx,
                                           y |-> current.y + directions[i].dy]],
                          LAMBDA p : /\ isValidPosition(p.x, p.y)
                                     /\ p \notin seen
                                     /\ m[p.y][p.x] = 0)
                  IN  hasPathLoop(m, Tail(queue) \o fresh,
                                  seen \cup { fresh[i] : i \in 1..Len(fresh) })

hasPath(m) == hasPathLoop(m, << startPosition >>, { startPosition })

\* the horizontal leg of createPathToGoal: row y, from x up to goal.x - 1
RECURSIVE PathHorizontal(_, _, _)
PathHorizontal(m, x, y) ==
    IF x < goalPosition.x THEN PathHorizontal(SetCell(m, x, y, 0), x + 1, y)
    ELSE m

\* the vertical leg of createPathToGoal: column x, from y up to goal.y - 1
RECURSIVE PathVertical(_, _, _)
PathVertical(m, x, y) ==
    IF y < goalPosition.y THEN PathVertical(SetCell(m, x, y, 0), x, y + 1)
    ELSE m

\* a repair whose vertical leg runs down the start's column: no turn at the
\* end of the horizontal leg
createPathToGoalNoTurn(m) ==
    LET x0 == startPosition.x
        y0 == startPosition.y
        m1 == PathHorizontal(m, x0, y0)
        m2 == PathVertical(m1, x0, y0)
    IN  SetCell(m2, goalPosition.x, goalPosition.y, 0)

createPathToGoal(m) ==
    LET x0 == startPosition.x
        y0 == startPosition.y
        m1 == PathHorizontal(m, x0, y0)
        x1 == Max2(x0, goalPosition.x)
        m2 == PathVertical(m1, x1, y0)
    IN  SetCell(m2, goalPosition.x, goalPosition.y, 0)

\* no QLearningAgent has been constructed
NoAgent ==
    /\ qTable = [k \in {} |-> 0]
    /\ learningRate = 0
    /\ discountFactor = 0
    /\ explorationRate = 0
    /\ mazeSize = 0
    /\ startPos = [x |-> 0, y |-> 0]
    /\ goalPos = [x |-> 0, y |-> 0]
    /\ maxSteps = 0
    /\ agentX = 0
    /\ agentY = 0
    /\ steps = 0
    /\ totalReward = 0
    /\ path = << >>
    /\ apc = "none"
    /\ last = [state |-> "", action |-> "", reward |-> 0, nextState |-> "",
               newX |-> 0, newY |-> 0]
    /\ ret = [op |-> "none"]
    /\ updates = 0

\* a ratio of two whole numbers, for the averages of the statistics
Ratio(num, den) == [num |-> num, den |-> den]

\* the training statistics of the page before any training (useState)
InitialStats ==
    [currentEpisode |-> 0, totalSteps |-> 0, successfulRuns |-> 0,
     successRate |-> Ratio(0, 1), avgSteps |-> Ratio(0, 1), bestTime |-> 0,
     statesExplored |-> 0, totalQValues |-> 0, maxQValue |-> 0,
     isTraining |-> FALSE, isPaused |-> FALSE,
     robotPosition |-> [x |-> 0, y |-> 0], currentStatus |-> "ready"]

\* no training page: nothing calls the generator or the agent in a loop
NoDriver ==
    /\ episodeNo = 0
    /\ trainingActive = FALSE
    /\ stats = InitialStats
    /\ timers = << >>
    /\ dpc = [at |-> "idle", ep |-> 0]
    /\ installed = FALSE
    /\ sessions = 0
    /\ generations = 0
    /\ sessionCalls = 0
    /\ interrupted = FALSE

\* the grid of generateMaze before the carving loop: all WALL, the start OPEN
FreshMaze(n) ==
    SetCell([y \in 0..(n - 1) |-> [x \in 0..(n - 1) |-> 1]], 0, 0, 0)

\* the visited marks before the carving loop: the start alone
FreshVisited(n) ==
    SetCell([y \in 0..(n - 1) |-> [x \in 0..(n - 1) |-> FALSE]], 0, 0, TRUE)

\* constructor and the head of generateMaze: all walls, start visited and open
MazeInit ==
    /\ size \in 1..MaxSize
    /\ wallDensity \in WallDensities
    /\ maze = FreshMaze(size)
    /\ visited = FreshVisited(size)
    /\ stack = << >>
    /\ currentX = 0
    /\ currentY = 0
    /\ cellX = 1
    /\ cellY = 1
    /\ connI = 0
    /\ pathChecks = 0
    /\ repaired = FALSE
    /\ gpc = "carve"
    /\ NoAgent
    /\ NoDriver

\* a do-while that is left after its first pass
AfterCarveAtOnce(stk) == "density"

\* where the do-while goes after one pass of its body
AfterCarve(stk) == IF Len(stk) > 0 THEN "carve" ELSE "density"

\* one pass of the do-while body that finds an unvisited neighbour
CarveStep ==
    /\ gpc = "carve"
    /\ LET neighbors == Neighbors(currentX, currentY)
       IN  /\ Len(neighbors) > 0
           /\ \E r \in 1..Len(neighbors) :
                LET randomNeighbor == neighbors[r]
                    stk == Append(stack, [x |-> currentX, y |-> currentY])
                IN  /\ stack' = stk
                    /\ maze' = SetCell(SetCell(maze, randomNeighbor.wallX,
                                               randomNeighbor.wallY, 0),
                                       randomNeighbor.x, randomNeighbor.y, 0)
                    /\ visited' = SetCell(visited, randomNeighbor.x,
                                          randomNeighbor.y, TRUE)
                    /\ currentX' = randomNeighbor.x
                    /\ currentY' = randomNeighbor.y
                    /\ gpc' = AfterCarve(stk)
    /\ UNCHANGED << size, wallDensity, cellX, cellY, connI, pathChecks, repaired >>
    /\ UNCHANGED agentVars
    /\ UNCHANGED driverVars

\* one pass of the do-while body without an unvisited neighbour: backtrack
\* when the stack holds a cell, nothing otherwise
BacktrackStep ==
    /\ gpc = "carve"
    /\ Len(Neighbors(currentX, currentY)) = 0
    /\ IF Len(stack) > 0
       THEN LET backtrack == stack[Len(stack)]
                stk == SubSeq(stack, 1, Len(stack) - 1)
            IN  /\ stack' = stk
                /\ currentX' = backtrack.x
                /\ currentY' = backtrack.y
                /\ gpc' = AfterCarve(stk)
       ELSE /\ UNCHANGED << stack, currentX, currentY >>
            /\ gpc' = AfterCarve(stack)
    /\ UNCHANGED << size, wallDensity, maze, visited, cellX, cellY, connI,
                    pathChecks, repaired >>
    /\ UNCHANGED agentVars
    /\ UNCHANGED driverVars

\* the cell is within two cells of the start or of the goal
NearStartOrGoal(x, y) ==
    \/ (Abs(x - startPosition.x) <= 2 /\ Abs(y - startPosition.y) <= 2)
    \/ (Abs(x - goalPosition.x) <= 2 /\ Abs(y - goalPosition.y) <= 2)

\* applyWallDensityModification: the body of the loops for one cell (x, y)
\* with the draw r of Math.random()
DensityCell(m, x, y, r) ==
    IF m[y][x] = 0 THEN m
    ELSE IF NearStartOrGoal(x, y) THEN m
    ELSE IF r < removalProbability /\ countAdjacentPaths(m, x, y) < 3
         THEN SetCell(m, x, y, 0)
         ELSE m

\* applyWallDensityModification: one cell of the interior, row by row; the
\* pass ends with the forced opening of start and goal (generateMaze)
DensityStep ==
    /\ gpc = "density"
    /\ IF cellY < size - 1 /\ cellX < size - 1
       THEN /\ \E r \in RandomDraws : maze' = DensityCell(maze, cellX, cellY, r)
            /\ IF cellX + 1 < size - 1
               THEN cellX' = cellX + 1 /\ cellY' = cellY
               ELSE cellX' = 1 /\ cellY' = cellY + 1
            /\ gpc' = gpc
       ELSE /\ maze' = SetCell(SetCell(maze, startPosition.x, startPosition.y, 0),
                               goalPosition.x, goalPosition.y, 0)
            /\ UNCHANGED << cellX, cellY >>
            /\ gpc' = "connect"
    /\ UNCHANGED << size, wallDensity, visited, stack, currentX, currentY,
                    connI, pathChecks, repaired >>
    /\ UNCHANGED agentVars
    /\ UNCHANGED driverVars

\* ensureConnectivity: one iteration with the two draws, or the end of the loop
ConnectStep ==
    /\ gpc = "connect"
    /\ IF connI < numConnections
       THEN /\ \E rx \in RandomDraws, ry \in RandomDraws :
                 LET x == FloorRandom(rx, size - 2) + 1
                     y == FloorRandom(ry, size - 2) + 1
                 IN  maze' = IF maze[y][x] = 1 /\ countAdjacentPaths(maze, x, y) >= 2
                             THEN SetCell(maze, x, y, 0)
                             ELSE maze
            /\ connI' = connI + 1
            /\ gpc' = gpc
       ELSE /\ UNCHANGED << maze, connI >>
            /\ gpc' = "check"
    /\ UNCHANGED << size, wallDensity, visited, stack, currentX, currentY,
                    cellX, cellY, pathChecks, repaired >>
    /\ UNCHANGED agentVars
    /\ UNCHANGED driverVars

\* the final check of generateMaze
FinalCheck ==
    /\ gpc = "check"
    /\ pathChecks' = pathChecks + 1
    /\ gpc' = IF hasPath(maze) THEN "done" ELSE "repair"
    /\ UNCHANGED << size, wallDensity, maze, visited, stack, currentX, currentY,
                    cellX, cellY, connI, repaired >>
    /\ UNCHANGED agentVars
    /\ UNCHANGED driverVars

\* the repair of generateMaze, after which the maze is returned
Repair ==
    /\ gpc = "repair"
    /\ maze' = createPathToGoal(maze)
    /\ repaired' = TRUE
    /\ gpc' = "done"
    /\ UNCHANGED << size, wallDensity, visited, stack, currentX, currentY,
                    cellX, cellY, connI, pathChecks >>
    /\ UNCHANGED agentVars
    /\ UNCHANGED driverVars

MazeNext ==
    \/ CarveStep
    \/ BacktrackStep
    \/ DensityStep
    \/ ConnectStep
    \/ FinalCheck
    \/ Repair

SpecMaze == MazeInit /\ [][MazeNext]_vars

----------------------------------------------------------------------------
(* Properties of the generated maze *)

\* the cells of the grid m that are OPEN and joined to a cell of S by a chain
\* of OPEN cells, each next to the one before (up, right, down or left)
RECURSIVE OpenReach(_, _)
OpenReach(m, S) ==
    LET n == Cardinality(DOMAIN m)
        T == S \cup { c \in (0..(n - 1)) \X (0..(n - 1)) :
                        /\ m[c[2]][c[1]] = 0
                        /\ \E d \in S : Abs(c[1] - d[1]) + Abs(c[2] - d[2]) = 1 }
    IN  IF T = S THEN S ELSE OpenReach(m, T)

\* start and goal corner of m are OPEN and joined by a path of OPEN cells
CornersJoined(m) ==
    LET n == Cardinality(DOMAIN m)
    IN  /\ m[0][0] = 0
        /\ << n - 1, n - 1 >> \in OpenReach(m, { << 0, 0 >> })

\* C1: every grid the generator returns, for any size >= 2, any wall density
\* and any outcome of the random draws, holds a path of OPEN cells from
\* (0,0) to (size-1,size-1)
C1_PathExists == (gpc = "done" /\ size >= 2) => CornersJoined(maze)

\* a grid was returned after the final check failed and the repair ran, and
\* the density pass had opened an interior wall before
C1_Witness ==
    /\ gpc = "done"
    /\ size >= 4
    /\ repaired
    /\ \E px \in 1..(size - 2), py \in 1..(size - 2) :
         px % 2 = 1 /\ py % 2 = 1 /\ maze[py][px] = 0
    /\ CornersJoined(maze)

\* C2: in every grid the generator returns, the cells (0,0) and
\* (size-1,size-1) are OPEN
C2_StartGoalOpen ==
    gpc = "done" => (maze[0][0] = 0 /\ maze[size - 1][size - 1] = 0)

\* a grid of even size was returned at the highest wall density: its goal
\* corner was never carved and is OPEN all the same
C2_Witness ==
    /\ gpc = "done"
    /\ size >= 2
    /\ size % 2 = 0
    /\ wallDensity = 1000
    /\ ~visited[size - 1][size - 1]
    /\ maze[0][0] = 0
    /\ maze[size - 1][size - 1] = 0

\* the OPEN cells of the grid m, as pairs << x, y >>
OpenSet(m) ==
    LET n == Cardinality(DOMAIN m)
    IN  { c \in (0..(n - 1)) \X (0..(n - 1)) : m[c[2]][c[1]] = 0 }

\* the number of pairs of OPEN cells of m that are next to each other
OpenEdges(m) ==
    LET cells == OpenSet(m)
    IN  Cardinality({ c \in cells : << c[1] + 1, c[2] >> \in cells })
        + Cardinality({ c \in cells : << c[1], c[2] + 1 >> \in cells })

\* the OPEN cells of m are connected and hold no cycle
IsTree(m) ==
    /\ OpenReach(m, { << 0, 0 >> }) = OpenSet(m)
    /\ OpenEdges(m) = Cardinality(OpenSet(m)) - 1

\* every cell of m with two even coordinates is OPEN
EvenCellsOpen(m) ==
    LET n == Cardinality(DOMAIN m)
    IN  \A px \in 0..(n - 1), py \in 0..(n - 1) :
          (px % 2 = 0 /\ py % 2 = 0) => m[py][px] = 0

\* what is left for the carving loop to do: two for every cell it has yet to
\* visit, one for every cell it has yet to pop
CarveRank ==
    2 * Cardinality({ c \in (0..(size - 1)) \X (0..(size - 1)) :
                        c[1] % 2 = 0 /\ c[2] % 2 = 0 /\ ~visited[c[2]][c[1]] })
    + Len(stack)

\* C22: for every size >= 1 and every random choice of neighbours the carving
\* loop terminates (every pass that stays in the loop brings it nearer its
\* end), it ends with an empty stack, and then every cell with two even
\* coordinates is OPEN and the OPEN cells form a tree
C22_CarvingLoop ==
    [][gpc = "carve" =>
         /\ gpc' = "carve" => CarveRank' < CarveRank
         /\ gpc' # "carve" => /\ stack' = << >>
                              /\ EvenCellsOpen(maze')
                              /\ IsTree(maze')]_vars

\* the loop has just ended on the largest grid, and it had to backtrack: a
\* corridor branches
C22_Witness ==
    /\ gpc = "density"
    /\ cellX = 1
    /\ cellY = 1
    /\ size = MaxSize
    /\ stack = << >>
    /\ EvenCellsOpen(maze)
    /\ IsTree(maze)
    /\ \E c \in OpenSet(maze) : countAdjacentPaths(maze, c[1], c[2]) >= 3

\* row y = 0 and column x = n - 1 of the grid m are OPEN
LShapeOpen(m) ==
    LET n == Cardinality(DOMAIN m)
    IN  /\ \A px \in 0..(n - 1) : m[0][px] = 0
        /\ \A py \in 0..(n - 1) : m[py][n - 1] = 0

\* C24: the repair runs exactly when size is even. For an even size >= 2 the
\* goal is not reachable at the final check and the returned grid has row 0
\* and column size-1 OPEN; for an odd size >= 3 the goal is reachable at the
\* final check and the repair does not run, whatever the density and the draws
C24_RepairIffEven ==
    /\ (gpc = "check" /\ size >= 2) => (hasPath(maze) <=> size % 2 = 1)
    /\ (gpc = "repair") => size % 2 = 0
    /\ (gpc = "done" /\ size >= 2) =>
          /\ repaired <=> size % 2 = 0
          /\ size % 2 = 0 => LShapeOpen(maze)

\* a grid of even size was returned after the density pass, at its most eager,
\* had opened interior walls: the repair ran all the same
C24_Witness ==
    /\ gpc = "done"
    /\ size = MaxSize
    /\ size % 2 = 0
    /\ wallDensity = 0
    /\ repaired
    /\ LShapeOpen(maze)
    /\ \E px \in 1..(size - 2), py \in 1..(size - 2) :
         px % 2 = 1 /\ py % 2 = 1 /\ maze[py][px] = 0

----------------------------------------------------------------------------
(* QLearningAgent *)

\* the denominator of the stored action values: every update divides by at
\* most 4 (learningRate and discountFactor are halves)
Scale == 4 ^ Max2(MaxUpdates, MaxGreedyUpdates)

\* the values learningRate and discountFactor are drawn from, in halves
Rates == {1, 2}

\* the values explorationRate is drawn from, in thousandths
ExplorationRates == {0, 200}

actions == << "up", "right", "down", "left" >>

EmptyTable == [k \in {} |-> 0]

\* no loop iteration of runEpisode has run since the last call began
NoStep == [state |-> "", action |-> "", reward |-> 0, nextState |-> "",
           newX |-> 0, newY |-> 0]

\* `${x},${y}`
getStateKey(px, py) == ToString(px) \o "," \o ToString(py)

\* the table with key k set to entry e
TableSet(qT, k, e) == [s \in DOMAIN qT \cup {k} |-> IF s = k THEN e ELSE qT[s]]

\* an initialisation that does not test whether the key is present
initializeQValuesAlways(qT, stateKey) ==
    TableSet(qT, stateKey, [a \in { actions[i] : i \in 1..Len(actions) } |-> 0])

initializeQValues(qT, stateKey) ==
    IF stateKey \in DOMAIN qT THEN qT
    ELSE TableSet(qT, stateKey, [a \in { actions[i] : i \in 1..Len(actions) } |-> 0])

\* an exploitation loop that takes a later action of equal value
RECURSIVE BestActionFromLast(_, _, _, _)
BestActionFromLast(qValues, i, bestAction, bestValue) ==
    IF i > Len(actions) THEN bestAction
    ELSE IF qValues[actions[i]] >= bestValue
         THEN BestActionFromLast(qValues, i + 1, actions[i], qValues[actions[i]])
         ELSE BestActionFromLast(qValues, i + 1, bestAction, bestValue)

\* the exploitation loop of chooseAction, from the i-th action on
RECURSIVE BestActionFrom(_, _, _, _)
BestActionFrom(qValues, i, bestAction, bestValue) ==
    IF i > Len(actions) THEN bestAction
    ELSE IF qValues[actions[i]] > bestValue
         THEN BestActionFrom(qValues, i + 1, actions[i], qValues[actions[i]])
         ELSE BestActionFrom(qValues, i + 1, bestAction, bestValue)

\* the action chooseAction returns on the table qT (the state's entry already
\* initialised), with the draws r1 and r2 of Math.random()
chooseAction(qT, px, py, r1, r2) ==
    LET stateKey == getStateKey(px, py)
    IN  IF r1 < explorationRate
        THEN actions[FloorRandom(r2, Len(actions)) + 1]
        ELSE BestActionFrom(qT[stateKey], 1, actions[1], qT[stateKey][actions[1]])

getNextPosition(px, py, action) ==
    CASE action = "up"    -> [x |-> px, y |-> py - 1]
      [] action = "right" -> [x |-> px + 1, y |-> py]
      [] action = "down"  -> [x |-> px, y |-> py + 1]
      [] action = "left"  -> [x |-> px - 1, y |-> py]
      [] OTHER            -> [x |-> px, y |-> py]

\* a validity test that checks the bounds and not the cell
isValidMoveBoundsOnly(px, py, m) ==
    /\ px >= 0
    /\ px < mazeSize
    /\ py >= 0
    /\ py < mazeSize

isValidMove(px, py, m) ==
    /\ px >= 0
    /\ px < mazeSize
    /\ py >= 0
    /\ py < mazeSize
    /\ m[py][px] = 0

\* a reward that tests for the goal before it tests the move
calculateRewardGoalFirst(px, py, newX, newY, m, goalX, goalY) ==
    IF newX = goalX /\ newY = goalY THEN 100
    ELSE IF ~isValidMove(newX, newY, m) THEN -10
    ELSE -1

\* a reward that charges an invalid move like any other step
calculateRewardNoPenalty(px, py, newX, newY, m, goalX, goalY) ==
    IF isValidMove(newX, newY, m) /\ newX = goalX /\ newY = goalY THEN 100
    ELSE -1

calculateReward(px, py, newX, newY, m, goalX, goalY) ==
    IF ~isValidMove(newX, newY, m) THEN -10
    ELSE IF newX = goalX /\ newY = goalY THEN 100
    ELSE -1

\* Math.max(...Object.values(qValues))
MaxValue(qValues) ==
    LET vals == { qValues[a] : a \in DOMAIN qValues }
    IN  CHOOSE v \in vals : \A w \in vals : v >= w

\* an update that adds the target to the old value instead of moving the old
\* value towards it
NewQNoDecay(currentQ, reward, maxNextQ) ==
    currentQ + (learningRate * (2 * reward * Scale + discountFactor * maxNextQ))
               \div 4

\* currentQ + learningRate * (reward + discountFactor * maxNextQ - currentQ),
\* on values in units of 1/Scale and rates in halves
NewQ(currentQ, reward, maxNextQ) ==
    currentQ + (learningRate * (2 * reward * Scale + discountFactor * maxNextQ
                                - 2 * currentQ)) \div 4

\* an assignment that stores the value under the capitalised action name
EntrySetMisnamed(qValues, action, v) ==
    LET key == CASE action = "up"    -> "Up"
                 [] action = "right" -> "Right"
                 [] action = "down"  -> "Down"
                 [] OTHER            -> "Left"
    IN  [a \in DOMAIN qValues \cup {key} |-> IF a = key THEN v ELSE qValues[a]]

\* the entry with the action's value set (an assignment to qValues[action])
EntrySet(qValues, action, v) ==
    [a \in DOMAIN qValues \cup {action} |-> IF a = action THEN v ELSE qValues[a]]

\* an update that learns the value of the state arrived at from the state left
updateQValueSwapped(qT, state, action, reward, nextState) ==
    LET q1 == initializeQValues(qT, state)
        q2 == initializeQValues(q1, nextState)
        currentQ == q2[nextState][action]
        newQ == NewQ(currentQ, reward, MaxValue(q2[state]))
    IN  TableSet(q2, nextState, EntrySet(q2[nextState], action, newQ))

\* an update that computes the new value and does not store it
updateQValueNoWrite(qT, state, action, reward, nextState) ==
    initializeQValues(initializeQValues(qT, state), nextState)

\* an update that reads the maximum of the next state after the write
updateQValueReadAfterWrite(qT, state, action, reward, nextState) ==
    LET q1 == initializeQValues(qT, state)
        q2 == initializeQValues(q1, nextState)
        currentQ == q2[state][action]
        provisional == NewQ(currentQ, reward, MaxValue(q2[nextState]))
        q3 == TableSet(q2, state, EntrySet(q2[state], action, provisional))
        newQ == NewQ(currentQ, reward, MaxValue(q3[nextState]))
    IN  TableSet(q2, state, EntrySet(q2[state], action, newQ))

updateQValue(qT, state, action, reward, nextState) ==
    LET q1 == initializeQValues(qT, state)
        q2 == initializeQValues(q1, nextState)
        currentQ == q2[state][action]
        nextQValues == q2[nextState]
        maxNextQ == MaxValue(nextQValues)
        newQ == NewQ(currentQ, reward, maxNextQ)
    IN  TableSet(q2, state, EntrySet(q2[state], action, newQ))

\* a lookup that makes up an all-zero entry for a key it does not hold
getQValuesZeroed(stateKey) ==
    [isNull |-> FALSE,
     entry |-> IF stateKey \in DOMAIN qTable THEN qTable[stateKey]
               ELSE [a \in { actions[i] : i \in 1..Len(actions) } |-> 0]]

\* this.qTable.get(stateKey) || null
getQValues(stateKey) ==
    IF stateKey \in DOMAIN qTable
    THEN [isNull |-> FALSE, entry |-> qTable[stateKey]]
    ELSE [isNull |-> TRUE, entry |-> EmptyTable]

getStatesExplored == Cardinality(DOMAIN qTable)

RECURSIVE SumKeys(_, _)
SumKeys(qT, keys) ==
    IF keys = {} THEN 0
    ELSE LET k == CHOOSE k \in keys : TRUE
         IN  Cardinality(DOMAIN qT[k]) + SumKeys(qT, keys \ {k})

getTotalQValues == SumKeys(qTable, DOMAIN qTable)

RECURSIVE MaxOver(_, _, _)
MaxOver(qT, keys, maxQ) ==
    IF keys = {} THEN maxQ
    ELSE LET k == CHOOSE k \in keys : TRUE
             localMax == MaxValue(qT[k])
         IN  MaxOver(qT, keys \ {k}, IF localMax > maxQ THEN localMax ELSE maxQ)

getMaxQValue == MaxOver(qTable, DOMAIN qTable, 0)

exportQTable == [k \in DOMAIN qTable |-> [a \in DOMAIN qTable[k] |-> qTable[k][a]]]

\* a grid of side n with the given wall cells
Grid(n, walls) ==
    [py \in 0..(n - 1) |-> [px \in 0..(n - 1) |-> IF << px, py >> \in walls THEN 1 ELSE 0]]

\* the grids and goals runEpisode is called with: a 2 x 2 grid without a
\* wall and the goal in the far corner or beside the start, one with a wall
\* on the goal, one with the start walled in, and a 3 x 3 grid with walls
Environments ==
    { [maze |-> Grid(2, {}), goal |-> [x |-> 1, y |-> 1]],
      [maze |-> Grid(2, {}), goal |-> [x |-> 1, y |-> 0]],
      [maze |-> Grid(2, {<< 0, 1 >>}), goal |-> [x |-> 0, y |-> 1]],
      [maze |-> Grid(2, {<< 1, 0 >>, << 0, 1 >>}), goal |-> [x |-> 1, y |-> 1]],
      [maze |-> Grid(3, {<< 1, 1 >>, << 2, 0 >>}), goal |-> [x |-> 2, y |-> 2]] }

\* the cells of the agent's grid
Cells == { [x |-> px, y |-> py] : px \in 0..(mazeSize - 1), py \in 0..(mazeSize - 1) }

\* the start positions runEpisode is called with: the first cell of the grid
\* (the generator's start) and the goal itself
Starts == { [x |-> 0, y |-> 0], goalPos }

\* new QLearningAgent(mazeSize, learningRate, discountFactor, explorationRate)
\* for a grid of side mazeSize and a goal cell
AgentInitOn(envs) ==
    /\ \E env \in envs :
         /\ maze = env.maze
         /\ goalPos = env.goal
    /\ size = Cardinality(DOMAIN maze)
    /\ mazeSize = size
    /\ wallDensity = 0
    /\ visited = << >>
    /\ stack = << >>
    /\ currentX = 0
    /\ currentY = 0
    /\ cellX = 1
    /\ cellY = 1
    /\ connI = 0
    /\ pathChecks = 0
    /\ repaired = FALSE
    /\ gpc = "done"
    /\ qTable = EmptyTable
    /\ learningRate \in Rates
    /\ discountFactor \in Rates
    /\ explorationRate \in ExplorationRates
    /\ startPos = [x |-> 0, y |-> 0]
    /\ maxSteps = 0
    /\ agentX = 0
    /\ agentY = 0
    /\ steps = 0
    /\ totalReward = 0
    /\ path = << >>
    /\ apc = "idle"
    /\ last = NoStep
    /\ ret = [op |-> "none"]
    /\ updates = 0
    /\ NoDriver

AgentInit == AgentInitOn(Environments)

\* the head of runEpisode(maze, startPos, goalPos, maxSteps), the grid being
\* the one in maze
BeginEpisode(s, g, ms) ==
    /\ apc = "idle"
    /\ startPos' = s
    /\ goalPos' = g
    /\ maxSteps' = ms
    /\ agentX' = s.x
    /\ agentY' = s.y
    /\ path' = << [x |-> s.x, y |-> s.y] >>
    /\ steps' = 0
    /\ totalReward' = 0
    /\ apc' = "running"
    /\ last' = NoStep
    /\ ret' = [op |-> "none"]
    /\ UNCHANGED << qTable, learningRate, discountFactor, explorationRate,
                    mazeSize, updates >>
    /\ UNCHANGED mazeVars

\* the head of runEpisode(maze, startPos, goalPos, maxSteps), called with a
\* step budget that leaves the table within `budget` updates
StartEpisodeWithin(budget) ==
    /\ \E s \in Starts, ms \in 0..budget :
         /\ updates + ms <= budget
         /\ BeginEpisode(s, goalPos, ms)
    /\ UNCHANGED driverVars

StartEpisode == StartEpisodeWithin(MaxUpdates)

\* a goal test on the x coordinate alone
GoalReachedByX(px, py) == px = goalPos.x

\* the test of the loop's early return: the position is the goal
GoalReached(px, py) == px = goalPos.x /\ py = goalPos.y

\* another method is called: the last runEpisode call is over and done with
ForgetCall ==
    /\ startPos' = [x |-> 0, y |-> 0]
    /\ maxSteps' = 0
    /\ last' = NoStep

\* runEpisode has returned: its locals are gone, the caller still holds the
\* arguments of the call
Returned ==
    /\ apc' = "idle"
    /\ UNCHANGED << startPos, maxSteps >>
    /\ agentX' = 0
    /\ agentY' = 0
    /\ steps' = 0
    /\ totalReward' = 0
    /\ path' = << >>

\* the EpisodeResult returned to the caller
EpisodeResult(success, n, reward, px, py, p) ==
    [op |-> "runEpisode", success |-> success, steps |-> n, totalReward |-> reward,
     finalPosition |-> [x |-> px, y |-> py], path |-> p]

\* one iteration of the while loop of runEpisode
EpisodeStep ==
    /\ apc = "running"
    /\ steps < maxSteps
    /\ \E r1 \in RandomDraws :
       \E r2 \in (IF r1 < explorationRate THEN RandomDraws ELSE {0}) :
         LET currentState == getStateKey(agentX, agentY)
             q0 == initializeQValues(qTable, currentState)
             action == chooseAction(q0, agentX, agentY, r1, r2)
             nextPos == getNextPosition(agentX, agentY, action)
             reward == calculateReward(agentX, agentY, nextPos.x, nextPos.y, maze,
                                       goalPos.x, goalPos.y)
             valid == isValidMove(nextPos.x, nextPos.y, maze)
             actualNextX == IF valid THEN nextPos.x ELSE agentX
             actualNextY == IF valid THEN nextPos.y ELSE agentY
             nextState == getStateKey(actualNextX, actualNextY)
             newPath == Append(path, [x |-> actualNextX, y |-> actualNextY])
         IN  /\ qTable' = updateQValue(q0, currentState, action, reward, nextState)
             /\ last' = [state |-> currentState, action |-> action,
                         reward |-> reward, nextState |-> nextState,
                         newX |-> nextPos.x, newY |-> nextPos.y]
             /\ IF GoalReached(actualNextX, actualNextY)
                THEN /\ ret' = EpisodeResult(TRUE, steps + 1, totalReward + reward,
                                             actualNextX, actualNextY, newPath)
                     /\ Returned
                ELSE /\ totalReward' = totalReward + reward
                     /\ agentX' = actualNextX
                     /\ agentY' = actualNextY
                     /\ steps' = steps + 1
                     /\ path' = newPath
                     /\ apc' = "running"
                     /\ UNCHANGED << ret, startPos, maxSteps >>
    /\ updates' = updates + 1
    /\ UNCHANGED << learningRate, discountFactor, explorationRate, mazeSize,
                    goalPos >>
    /\ UNCHANGED mazeVars
    /\ UNCHANGED driverVars

\* the exit of the while loop of runEpisode: the step budget is used up
EpisodeEnd ==
    /\ apc = "running"
    /\ ~(steps < maxSteps)
    /\ ret' = EpisodeResult(FALSE, steps, totalReward, agentX, agentY, path)
    /\ Returned
    /\ UNCHANGED << qTable, learningRate, discountFactor, explorationRate,
                    mazeSize, goalPos, last, updates >>
    /\ UNCHANGED mazeVars
    /\ UNCHANGED driverVars

\* an optional argument: << >> is undefined, << v >> is the value v
Optional(values) == { << >> } \cup { << v >> : v \in values }

\* an update that takes a supplied 0 for a parameter that was left out
UpdateParametersTruthy ==
    /\ apc = "idle"
    /\ \E lr \in Optional(Rates), df \in Optional(Rates),
          er \in Optional(ExplorationRates) :
         /\ learningRate' = IF lr # << >> /\ lr[1] # 0 THEN lr[1] ELSE learningRate
         /\ discountFactor' = IF df # << >> /\ df[1] # 0 THEN df[1]
                               ELSE discountFactor
         /\ explorationRate' = IF er # << >> /\ er[1] # 0 THEN er[1]
                                ELSE explorationRate
         /\ ret' = [op |-> "updateParameters", learningRate |-> lr,
                     discountFactor |-> df, explorationRate |-> er]
    /\ ForgetCall
    /\ UNCHANGED << qTable, mazeSize, goalPos, agentX, agentY, steps, totalReward,
                    path, apc, updates >>
    /\ UNCHANGED mazeVars
    /\ UNCHANGED driverVars

\* updateParameters(learningRate?, discountFactor?, explorationRate?)
UpdateParameters ==
    /\ apc = "idle"
    /\ \E lr \in Optional(Rates), df \in Optional(Rates),
          er \in Optional(ExplorationRates) :
         /\ learningRate' = IF lr # << >> THEN lr[1] ELSE learningRate
         /\ discountFactor' = IF df # << >> THEN df[1] ELSE discountFactor
         /\ explorationRate' = IF er # << >> THEN er[1] ELSE explorationRate
         /\ ret' = [op |-> "updateParameters", learningRate |-> lr,
                     discountFactor |-> df, explorationRate |-> er]
    /\ ForgetCall
    /\ UNCHANGED << qTable, mazeSize, goalPos, agentX, agentY, steps, totalReward,
                    path, apc, updates >>
    /\ UNCHANGED mazeVars
    /\ UNCHANGED driverVars

\* a reset that zeroes the stored values and keeps the keys
ResetValuesOnly ==
    /\ apc = "idle"
    /\ qTable' = [k \in DOMAIN qTable |->
                     [a \in { actions[i] : i \in 1..Len(actions) } |-> 0]]
    /\ updates' = 0
    /\ ret' = [op |-> "reset"]
    /\ ForgetCall
    /\ UNCHANGED << learningRate, discountFactor, explorationRate, mazeSize,
                    goalPos, agentX, agentY, steps, totalReward, path, apc >>
    /\ UNCHANGED mazeVars
    /\ UNCHANGED driverVars

\* reset()
Reset ==
    /\ apc = "idle"
    /\ qTable' = EmptyTable
    /\ updates' = 0
    /\ ret' = [op |-> "reset"]
    /\ ForgetCall
    /\ UNCHANGED << learningRate, discountFactor, explorationRate, mazeSize,
                    goalPos, agentX, agentY, steps, totalReward, path, apc >>
    /\ UNCHANGED mazeVars
    /\ UNCHANGED driverVars

\* the state keys getQValues is asked about: the first and the last cell of
\* the grid
QueryKeys == { getStateKey(0, 0), getStateKey(mazeSize - 1, mazeSize - 1) }

\* getQValues, getStatesExplored, getTotalQValues, getMaxQValue, exportQTable
Query ==
    /\ apc = "idle"
    /\ \/ \E k \in QueryKeys :
            ret' = [op |-> "getQValues", key |-> k, value |-> getQValues(k)]
       \/ ret' = [op |-> "getStatesExplored", value |-> getStatesExplored]
       \/ ret' = [op |-> "getTotalQValues", value |-> getTotalQValues]
       \/ ret' = [op |-> "getMaxQValue", value |-> getMaxQValue]
       \/ ret' = [op |-> "exportQTable", value |-> exportQTable]
    /\ ForgetCall
    /\ UNCHANGED << qTable, learningRate, discountFactor, explorationRate,
                    mazeSize, goalPos, agentX, agentY, steps, totalReward, path,
                    apc, updates >>
    /\ UNCHANGED mazeVars
    /\ UNCHANGED driverVars

AgentNext ==
    \/ StartEpisode
    \/ EpisodeStep
    \/ EpisodeEnd
    \/ UpdateParameters
    \/ Reset
    \/ Query

SpecAgent == AgentInit /\ [][AgentNext]_vars

\* an agent that never explores, run for longer
GreedyInit ==
    /\ AgentInit
    /\ explorationRate = 0

StartGreedyEpisode == StartEpisodeWithin(MaxGreedyUpdates)

GreedyNext ==
    \/ StartGreedyEpisode
    \/ EpisodeStep
    \/ EpisodeEnd

SpecGreedy == GreedyInit /\ [][GreedyNext]_vars

\* the grids without a wall, with the goal in the far corner
OpenGridSizes == {2, 3}

OpenGrids ==
    { [maze |-> Grid(n, {}), goal |-> [x |-> n - 1, y |-> n - 1]] :
        n \in OpenGridSizes }

\* the step budgets of the calls: one that the first episode on the 3 x 3 grid
\* uses up, and the scenario's
RepeatBudgets == {15, ScenarioMaxSteps}

\* a fresh agent that never explores, on a grid without a wall
RepeatInit ==
    /\ AgentInitOn(OpenGrids)
    /\ explorationRate = 0

\* the caller's loop: one more runEpisode from (0,0) on the same agent
NextEpisode ==
    /\ episodeNo < MaxEpisodes
    /\ \E ms \in RepeatBudgets : BeginEpisode([x |-> 0, y |-> 0], goalPos, ms)
    /\ episodeNo' = episodeNo + 1
    /\ UNCHANGED << trainingActive, stats, timers, dpc, installed, sessions,
                    generations, sessionCalls, interrupted >>

RepeatNext ==
    \/ NextEpisode
    \/ EpisodeStep
    \/ EpisodeEnd

SpecRepeat == RepeatInit /\ [][RepeatNext]_vars

----------------------------------------------------------------------------
(***************************************************************************)
(* The training page (MazeSolver).  A handler or a timer callback runs to  *)
(* completion before the next one starts; the calls it makes into the      *)
(* generator and the agent are stepped through with the page held at dpc.  *)
(* State updates are applied in the order they are made.  The visit        *)
(* counts, the path trail and the episode history feed the display only    *)
(* and are left out.                                                       *)
(***************************************************************************)

\* the maze sizes and the learning parameters set on the page
DriverSizes == {2, 3}

DriverDensities == {300}

DriverRates == {2}

DriverExplorationRates == {0}

\* the sequence without its i-th element
RemoveAt(seq, i) == SubSeq(seq, 1, i - 1) \o SubSeq(seq, i + 1, Len(seq))

\* what updateEpisodeStats reads from the agent it holds: the agent of the
\* page, or the values of an agent that has been replaced since
LiveAgent == [live |-> TRUE, statesExplored |-> 0, totalQValues |-> 0, maxQValue |-> 0]

FrozenAgent ==
    [live |-> FALSE, statesExplored |-> getStatesExplored,
     totalQValues |-> getTotalQValues, maxQValue |-> getMaxQValue]

NoResult == [success |-> FALSE, steps |-> 0, finalPosition |-> [x |-> 0, y |-> 0],
             path |-> << >>]

\* pending timer callbacks: the installation of a requested maze, the next
\* step of a path animation, the wait before the next episode
GenerateTimer(n, d) ==
    [kind |-> "generate", size |-> n, density |-> d, ep |-> 0, pathIndex |-> 0,
     result |-> NoResult, agent |-> LiveAgent]

StepTimer(ep, pathIndex, result, agent) ==
    [kind |-> "step", size |-> 0, density |-> 0, ep |-> ep, pathIndex |-> pathIndex,
     result |-> result, agent |-> agent]

NextTimer(ep) ==
    [kind |-> "next", size |-> 0, density |-> 0, ep |-> ep, pathIndex |-> 0,
     result |-> NoResult, agent |-> LiveAgent]

\* no handler or callback is in the middle of a call
Quiet == dpc.at = "idle" /\ apc # "running"

\* the page as mounted: no maze, no agent, nothing pending
DriverInit ==
    /\ size = 0
    /\ wallDensity = 0
    /\ maze = [y \in {} |-> 0]
    /\ visited = [y \in {} |-> 0]
    /\ stack = << >>
    /\ currentX = 0
    /\ currentY = 0
    /\ cellX = 1
    /\ cellY = 1
    /\ connI = 0
    /\ pathChecks = 0
    /\ repaired = FALSE
    /\ gpc = "done"
    /\ NoAgent
    /\ NoDriver

\* generateNewMaze: the installation is put on a timer
GenerateNewMaze ==
    /\ Quiet
    /\ generations < MaxGenerations
    /\ generations' = generations + 1
    /\ \E n \in DriverSizes, d \in DriverDensities :
         timers' = Append(timers, GenerateTimer(n, d))
    /\ interrupted' = TRUE
    /\ UNCHANGED << episodeNo, trainingActive, stats, dpc, installed, sessions,
                    sessionCalls >>
    /\ UNCHANGED mazeVars
    /\ UNCHANGED agentVars

\* the timer of generateNewMaze fires: new MazeGenerator(size, wallDensity)
\* begins
GenerateFire ==
    /\ Quiet
    /\ \E i \in 1..Len(timers) :
         /\ timers[i].kind = "generate"
         /\ timers' = RemoveAt(timers, i)
         /\ size' = timers[i].size
         /\ wallDensity' = timers[i].density
         /\ maze' = FreshMaze(timers[i].size)
         /\ visited' = FreshVisited(timers[i].size)
    /\ stack' = << >>
    /\ currentX' = 0
    /\ currentY' = 0
    /\ cellX' = 1
    /\ cellY' = 1
    /\ connI' = 0
    /\ pathChecks' = 0
    /\ repaired' = FALSE
    /\ gpc' = "carve"
    /\ dpc' = [at |-> "generating", ep |-> 0]
    /\ UNCHANGED << episodeNo, trainingActive, stats, installed, sessions,
                    generations, sessionCalls, interrupted >>
    /\ UNCHANGED agentVars

\* the statistics with the fields that generateNewMaze and resetTraining set
ClearedStats(status) ==
    [InitialStats EXCEPT !.currentStatus = status]

\* the rest of the timer of generateNewMaze, the maze being built: a new
\* agent, cleared statistics
GenerateInstall ==
    /\ dpc.at = "generating"
    /\ gpc = "done"
    /\ qTable' = EmptyTable
    /\ learningRate' \in DriverRates
    /\ discountFactor' \in DriverRates
    /\ explorationRate' \in DriverExplorationRates
    /\ mazeSize' = size
    /\ startPos' = [x |-> 0, y |-> 0]
    /\ goalPos' = [x |-> 0, y |-> 0]
    /\ maxSteps' = 0
    /\ agentX' = 0
    /\ agentY' = 0
    /\ steps' = 0
    /\ totalReward' = 0
    /\ path' = << >>
    /\ apc' = "idle"
    /\ last' = NoStep
    /\ ret' = [op |-> "none"]
    /\ updates' = 0
    /\ installed' = TRUE
    /\ stats' = ClearedStats("generated")
    /\ timers' = [i \in 1..Len(timers) |->
                     IF timers[i].kind = "step" /\ timers[i].agent.live
                     THEN [timers[i] EXCEPT !.agent = FrozenAgent]
                     ELSE timers[i]]
    /\ dpc' = [at |-> "idle", ep |-> 0]
    /\ UNCHANGED << episodeNo, trainingActive, sessions, generations,
                    sessionCalls, interrupted >>
    /\ UNCHANGED mazeVars

\* runEpisode of the training loop, up to its call of agent.runEpisode on the
\* maze and the agent of the page; ep is the loop's currentEpisode
CallRunEpisode(ep) ==
    /\ BeginEpisode(startPosition, goalPosition, DefaultMaxSteps)
    /\ dpc' = [at |-> "episode", ep |-> ep]

\* startTraining
StartTraining ==
    /\ Quiet
    /\ installed
    /\ ~stats.isTraining
    /\ sessions < MaxSessions
    /\ trainingActive' = TRUE
    /\ stats' = [stats EXCEPT !.isTraining = TRUE, !.isPaused = FALSE,
                              !.currentStatus = "training"]
    /\ CallRunEpisode(0)
    /\ sessions' = sessions + 1
    /\ sessionCalls' = 1
    /\ interrupted' = FALSE
    /\ UNCHANGED << episodeNo, timers, installed, generations >>

\* animatePath(pathIndex), the pending timers being ts
AnimatePath(ts, ep, pathIndex, result, agent) ==
    IF pathIndex < Len(result.path) /\ trainingActive
    THEN /\ stats' = [stats EXCEPT !.robotPosition = result.path[pathIndex + 1],
                                   !.currentStatus = "episode"]
         /\ timers' = Append(ts, StepTimer(ep, pathIndex, result, agent))
    ELSE /\ stats' = stats
         /\ timers' = ts

\* the rest of runEpisode of the training loop, agent.runEpisode having
\* returned: currentEpisode++ and the first animatePath
AfterEpisode ==
    /\ dpc.at = "episode"
    /\ apc = "idle"
    /\ AnimatePath(timers, dpc.ep + 1, 0,
                   [success |-> ret.success, steps |-> ret.steps,
                    finalPosition |-> ret.finalPosition, path |-> ret.path],
                   LiveAgent)
    /\ dpc' = [at |-> "idle", ep |-> 0]
    /\ UNCHANGED << episodeNo, trainingActive, installed, sessions, generations,
                    sessionCalls, interrupted >>
    /\ UNCHANGED mazeVars
    /\ UNCHANGED agentVars

\* the statistics after updateEpisodeStats, for the episode held by timer t
UpdatedStats(prev, t) ==
    LET total == prev.totalSteps + t.result.steps
        wins  == prev.successfulRuns + (IF t.result.success THEN 1 ELSE 0)
    IN  [prev EXCEPT
           !.currentEpisode = t.ep,
           !.totalSteps = total,
           !.successfulRuns = wins,
           !.robotPosition = t.result.finalPosition,
           !.statesExplored = IF t.agent.live THEN getStatesExplored
                              ELSE t.agent.statesExplored,
           !.totalQValues = IF t.agent.live THEN getTotalQValues
                            ELSE t.agent.totalQValues,
           !.maxQValue = IF t.agent.live THEN getMaxQValue ELSE t.agent.maxQValue,
           !.successRate = Ratio(wins * 100, t.ep),
           !.avgSteps = Ratio(total, t.ep),
           !.bestTime = IF t.result.success
                           /\ (prev.bestTime = 0 \/ t.result.steps < prev.bestTime)
                        THEN t.result.steps ELSE prev.bestTime]

\* the timer set by animatePath fires: the next step of the animation, or
\* updateEpisodeStats and the wait before the next episode
StepFire ==
    /\ Quiet
    /\ \E i \in 1..Len(timers) :
         LET t  == timers[i]
             ts == RemoveAt(timers, i)
         IN  /\ t.kind = "step"
             /\ IF t.pathIndex + 1 < Len(t.result.path)
                THEN AnimatePath(ts, t.ep, t.pathIndex + 1, t.result, t.agent)
                ELSE /\ stats' = UpdatedStats(stats, t)
                     /\ timers' = Append(ts, NextTimer(t.ep))
    /\ UNCHANGED << episodeNo, trainingActive, dpc, installed, sessions,
                    generations, sessionCalls, interrupted >>
    /\ UNCHANGED mazeVars
    /\ UNCHANGED agentVars

\* the timer set by updateEpisodeStats fires with episodes left and the
\* training active: the next runEpisode
NextFireContinue ==
    /\ Quiet
    /\ trainingActive
    /\ \E i \in 1..Len(timers) :
         /\ timers[i].kind = "next"
         /\ timers[i].ep < TotalEpisodes
         /\ timers' = RemoveAt(timers, i)
         /\ CallRunEpisode(timers[i].ep)
    /\ sessionCalls' = sessionCalls + 1
    /\ UNCHANGED << episodeNo, trainingActive, stats, installed, sessions,
                    generations, interrupted >>

\* the timer set by updateEpisodeStats fires otherwise: training complete
NextFireComplete ==
    /\ Quiet
    /\ \E i \in 1..Len(timers) :
         /\ timers[i].kind = "next"
         /\ ~(timers[i].ep < TotalEpisodes /\ trainingActive)
         /\ timers' = RemoveAt(timers, i)
    /\ trainingActive' = FALSE
    /\ stats' = [stats EXCEPT !.isTraining = FALSE, !.currentStatus = "completed"]
    /\ UNCHANGED << episodeNo, dpc, installed, sessions, generations,
                    sessionCalls, interrupted >>
    /\ UNCHANGED mazeVars
    /\ UNCHANGED agentVars

\* pauseTraining
PauseTraining ==
    /\ Quiet
    /\ trainingActive' = FALSE
    /\ stats' = [stats EXCEPT !.isTraining = FALSE, !.isPaused = TRUE,
                              !.currentStatus = "paused"]
    /\ interrupted' = TRUE
    /\ UNCHANGED << episodeNo, timers, dpc, installed, sessions, generations,
                    sessionCalls >>
    /\ UNCHANGED mazeVars
    /\ UNCHANGED agentVars

\* resetTraining
ResetTraining ==
    /\ Quiet
    /\ trainingActive' = FALSE
    /\ IF installed
       THEN /\ qTable' = EmptyTable
            /\ updates' = 0
            /\ ret' = [op |-> "reset"]
            /\ ForgetCall
            /\ UNCHANGED << learningRate, discountFactor, explorationRate,
                            mazeSize, goalPos, agentX, agentY, steps, totalReward,
                            path, apc >>
       ELSE UNCHANGED agentVars
    /\ stats' = ClearedStats("reset")
    /\ interrupted' = TRUE
    /\ UNCHANGED << episodeNo, timers, dpc, installed, sessions, generations,
                    sessionCalls >>
    /\ UNCHANGED mazeVars

DriverNext ==
    \/ GenerateNewMaze
    \/ GenerateFire
    \/ MazeNext
    \/ GenerateInstall
    \/ StartTraining
    \/ EpisodeStep
    \/ EpisodeEnd
    \/ AfterEpisode
    \/ StepFire
    \/ NextFireContinue
    \/ NextFireComplete
    \/ PauseTraining
    \/ ResetTraining

SpecTraining == DriverInit /\ [][DriverNext]_vars

----------------------------------------------------------------------------
(* Properties of the agent *)

ActionSet == { actions[i] : i \in 1..Len(actions) }

\* the position is a cell of the grid and the cell is OPEN
OpenCell(p) ==
    /\ p.x \in 0..(mazeSize - 1)
    /\ p.y \in 0..(mazeSize - 1)
    /\ maze[p.y][p.x] = 0

\* the two positions are next to each other: up, right, down or left
Adjacent(p, q) == Abs(p.x - q.x) + Abs(p.y - q.y) = 1

\* runEpisode has just returned to its caller
EpisodeReturned == apc = "idle" /\ ret.op = "runEpisode"

\* C3: after any sequence of runEpisode, updateParameters, reset and queries,
\* every key of the value table maps to exactly the four actions up, right,
\* down, left, so getTotalQValues() = 4 * getStatesExplored()
C3_FourActions ==
    /\ \A k \in DOMAIN qTable : DOMAIN qTable[k] = {"up", "right", "down", "left"}
    /\ getTotalQValues = 4 * getStatesExplored

\* getTotalQValues() was called on a table of two states, one of them with a
\* value that has been updated, and returned 8
C3_Witness ==
    /\ ret.op = "getTotalQValues"
    /\ ret.value = 8
    /\ getStatesExplored = 2
    /\ \E k \in DOMAIN qTable : \E a \in DOMAIN qTable[k] : qTable[k][a] # 0

\* C4: for an OPEN start different from the goal and any maxSteps >= 0,
\* runEpisode returns with steps <= maxSteps; success is true exactly when
\* the final position is the goal; the goal occurs in the path only as its
\* last element; success = false implies steps = maxSteps
C4_EpisodeOutcome ==
    (EpisodeReturned /\ OpenCell(startPos) /\ startPos # goalPos) =>
        /\ ret.steps <= maxSteps
        /\ ret.success <=> (ret.finalPosition = goalPos)
        /\ \A i \in 1..(Len(ret.path) - 1) : ret.path[i] # goalPos
        /\ ~ret.success => ret.steps = maxSteps

\* an episode with a budget of two steps returned success after one step
C4_Witness ==
    /\ EpisodeReturned
    /\ OpenCell(startPos)
    /\ startPos # goalPos
    /\ maxSteps = 2
    /\ ret.success
    /\ ret.steps = 1
    /\ ret.path[Len(ret.path)] = goalPos

\* C5: when the start is an in-bounds OPEN cell the returned path begins with
\* the start, has steps + 1 elements, holds only in-bounds OPEN cells, and
\* two consecutive elements are equal or 4-adjacent; the last two are equal
\* exactly when the last attempted move was invalid
C5_PathShape ==
    (EpisodeReturned /\ OpenCell(startPos)) =>
        /\ ret.path[1] = startPos
        /\ Len(ret.path) = ret.steps + 1
        /\ \A i \in 1..Len(ret.path) : OpenCell(ret.path[i])
        /\ \A i \in 1..(Len(ret.path) - 1) :
             ret.path[i] = ret.path[i + 1] \/ Adjacent(ret.path[i], ret.path[i + 1])
        /\ ret.steps > 0 =>
             LET n == Len(ret.path)
                 candidate == [x |-> last.newX, y |-> last.newY]
             IN  IF OpenCell(candidate)
                 THEN ret.path[n] = candidate /\ Adjacent(ret.path[n - 1], ret.path[n])
                 ELSE ret.path[n] = ret.path[n - 1]

\* a returned path of three elements: the agent stayed in place on an invalid
\* move, then moved to a neighbouring cell
C5_Witness ==
    /\ EpisodeReturned
    /\ OpenCell(startPos)
    /\ ret.steps = 2
    /\ ret.path[1] = ret.path[2]
    /\ ret.path[2] # ret.path[3]



\* a loop iteration of runEpisode has run since the call began
Stepped == last.action # ""

\* C6: the reward of an attempted move is -10 if the candidate cell is outside
\* the grid or a WALL, otherwise +100 if the candidate is the goal, otherwise
\* -1; the invalid-move test comes before the goal test
C6_Reward ==
    Stepped =>
        LET candidate == [x |-> last.newX, y |-> last.newY]
        IN  /\ ~(candidate \in Cells) => last.reward = -10
            /\ (candidate \in Cells /\ maze[candidate.y][candidate.x] = 1) =>
                   last.reward = -10
            /\ (OpenCell(candidate) /\ candidate = goalPos) => last.reward = 100
            /\ (OpenCell(candidate) /\ candidate # goalPos) => last.reward = -1

\* the agent attempted a move onto the goal while the goal cell is a WALL and
\* was given -10
C6_Witness ==
    /\ Stepped
    /\ last.newX = goalPos.x
    /\ last.newY = goalPos.y
    /\ maze[goalPos.y][goalPos.x] = 1
    /\ last.reward = -10

\* the rewards of the steps of a path: -10 where the position did not change,
\* +100 for a step that moved onto the goal, -1 for every other step
RECURSIVE PathReward(_)
PathReward(p) ==
    IF Len(p) < 2 THEN 0
    ELSE LET n == Len(p)
             r == IF p[n] = p[n - 1] THEN -10
                  ELSE IF p[n] = goalPos THEN 100
                  ELSE -1
         IN  PathReward(SubSeq(p, 1, n - 1)) + r

\* C7: the totalReward runEpisode returns is the sum of the rewards of its
\* steps; an episode of one step whose move hits a wall or the boundary
\* returns totalReward = -10 and a final position equal to the start
C7_TotalReward ==
    /\ apc = "running" => totalReward = PathReward(path)
    /\ EpisodeReturned =>
         /\ ret.totalReward = PathReward(ret.path)
         /\ (ret.steps = 1 /\ ~OpenCell([x |-> last.newX, y |-> last.newY])) =>
                (ret.totalReward = -10 /\ ret.finalPosition = startPos)

\* an episode of one step whose only move ran into a wall returned -10 at the
\* start
C7_Witness ==
    /\ EpisodeReturned
    /\ ret.steps = 1
    /\ [x |-> last.newX, y |-> last.newY] \in Cells
    /\ maze[last.newY][last.newX] = 1
    /\ ret.totalReward = -10
    /\ ret.finalPosition = startPos


\* the stored values of a key, an absent key counting as all zeros
StoredEntry(k) ==
    IF k \in DOMAIN qTable THEN qTable[k] ELSE [a \in ActionSet |-> 0]

\* the first action, in the order up, right, down, left, whose value is the
\* maximum of the entry
ArgMaxFirst(entry) ==
    LET i == CHOOSE i \in 1..Len(actions) :
                 /\ \A j \in 1..Len(actions) : entry[actions[j]] <= entry[actions[i]]
                 /\ \A j \in 1..(i - 1) : entry[actions[j]] < entry[actions[i]]
    IN  actions[i]

\* the greatest value of an entry
MaxOfEntry(entry) ==
    CHOOSE v \in { entry[a] : a \in ActionSet } :
        \A a \in ActionSet : entry[a] <= v

\* a loop iteration of runEpisode is taken in this step
StepTaken == updates' = updates + 1

\* C8: with exploration rate 0 the action chosen in a state is the action of
\* maximum stored value for that state, the first in the order up, right,
\* down, left among several of maximum value; it depends on the stored values
\* only
C8_GreedyChoice ==
    [][(StepTaken /\ explorationRate = 0) =>
           last'.action = ArgMaxFirst(StoredEntry(getStateKey(agentX, agentY)))]_vars

\* with exploration rate 0 the agent chose down while up and right were worse
\* and left shared the maximum with down
C8_Witness ==
    /\ explorationRate = 0
    /\ Stepped
    /\ last.action = "down"
    /\ qTable[last.state]["up"] < 0
    /\ qTable[last.state]["right"] < 0
    /\ qTable[last.state]["down"] < 0
    /\ qTable[last.state]["left"] = 0

\* C9: an update replaces Q(s,a) by
\* Q(s,a) + alpha * (r + gamma * max over a' of Q(s',a') - Q(s,a)), s and s'
\* counting as all zeros when absent and being present afterwards, and the
\* maximum being that of the values before the write, on a self-loop too
C9_UpdateRule ==
    [][StepTaken =>
           LET s == getStateKey(agentX, agentY)
               a == last'.action
               r == last'.reward
               n == last'.nextState
               old == StoredEntry(s)[a]
               maxNext == MaxOfEntry(StoredEntry(n))
           IN  /\ s \in DOMAIN qTable'
               /\ n \in DOMAIN qTable'
               /\ 4 * (qTable'[s][a] - old) =
                      learningRate * (2 * r * Scale + discountFactor * maxNext
                                      - 2 * old)]_vars

\* four updates on a self-loop have made every value of the state negative:
\* the fourth wrote the action that alone held the maximum 0
C9_Witness ==
    /\ Stepped
    /\ updates >= 4
    /\ last.state = last.nextState
    /\ last.action = "left"
    /\ \A a \in ActionSet : qTable[last.state][a] < 0

\* C10: a step of runEpisode changes the stored value of the pair (current
\* state, chosen action) at most, may add all-zero entries for the current and
\* the next state, changes no other stored value and removes no key; no
\* operation other than reset removes a key
C10_Frame ==
    [][/\ Reset \/ DOMAIN qTable \subseteq DOMAIN qTable'
       /\ StepTaken =>
              LET s == getStateKey(agentX, agentY)
                  a == last'.action
                  n == last'.nextState
              IN  /\ DOMAIN qTable \subseteq DOMAIN qTable'
                  /\ DOMAIN qTable' \subseteq DOMAIN qTable \cup {s, n}
                  /\ \A k \in DOMAIN qTable' :
                         /\ DOMAIN qTable'[k] = ActionSet
                         /\ \A b \in ActionSet :
                                (k # s \/ b # a) =>
                                    qTable'[k][b] = StoredEntry(k)[b]]_vars

\* a step moved the agent: the value of the pair it took is no longer 0, the
\* other values of its state are as they were and the next state has an
\* all-zero entry
C10_Witness ==
    /\ Stepped
    /\ last.state # last.nextState
    /\ {last.state, last.nextState} \subseteq DOMAIN qTable
    /\ qTable[last.state][last.action] # 0
    /\ \E b \in ActionSet \ {last.action} : qTable[last.state][b] # 0
    /\ \A b \in ActionSet : qTable[last.nextState][b] = 0


\* C11: getQValues on a key the table does not hold returns null and leaves
\* the table as it was: getStatesExplored() and getTotalQValues() are the same
\* before and after the call
C11_LookupOfAbsentKey ==
    [][(Query /\ ret'.op = "getQValues" /\ ret'.key \notin DOMAIN qTable) =>
           /\ ret'.value.isNull
           /\ qTable' = qTable
           /\ getStatesExplored' = getStatesExplored
           /\ getTotalQValues' = getTotalQValues]_vars

\* getQValues was asked for a key the table does not hold, the table holding
\* other keys, and returned null
C11_Witness ==
    /\ ret.op = "getQValues"
    /\ ret.key \notin DOMAIN qTable
    /\ ret.value.isNull
    /\ getStatesExplored >= 1

\* C12: after reset() getStatesExplored() and getTotalQValues() are 0 and
\* learningRate, discountFactor and explorationRate are as before the call; a
\* second reset() leaves the state the first one left
C12_Reset ==
    [][Reset =>
           /\ getStatesExplored' = 0
           /\ getTotalQValues' = 0
           /\ learningRate' = learningRate
           /\ discountFactor' = discountFactor
           /\ explorationRate' = explorationRate
           /\ (ret.op = "reset" =>
                   qTable' = qTable /\ ret' = ret /\ UNCHANGED agentVars)]_vars

\* reset() has run on an agent whose parameters are not the ones it would be
\* constructed with by default
C12_Witness ==
    /\ ret.op = "reset"
    /\ qTable = EmptyTable
    /\ learningRate = 2
    /\ discountFactor = 1
    /\ explorationRate = 200


\* the value an optional argument gives a parameter
Supplied(arg, old) == IF arg # << >> THEN arg[1] ELSE old

\* C13: updateParameters sets the parameters it is given, leaves the others and
\* the value table as they were, and the next chooseAction and updateQValue
\* work with the parameters as they then are
C13_UpdateParameters ==
    [][/\ UpdateParameters =>
              /\ learningRate' = Supplied(ret'.learningRate, learningRate)
              /\ discountFactor' = Supplied(ret'.discountFactor, discountFactor)
              /\ explorationRate' = Supplied(ret'.explorationRate, explorationRate)
              /\ qTable' = qTable
       /\ StepTaken =>
              LET s == getStateKey(agentX, agentY)
                  a == last'.action
                  old == StoredEntry(s)[a]
                  maxNext == MaxOfEntry(StoredEntry(last'.nextState))
              IN  /\ explorationRate = 0 => a = ArgMaxFirst(StoredEntry(s))
                  /\ 4 * (qTable'[s][a] - old) =
                         learningRate * (2 * last'.reward * Scale
                                         + discountFactor * maxNext - 2 * old)]_vars

\* updateParameters was given an exploration rate of 0 and nothing else, on an
\* agent that has learnt something
C13_Witness ==
    /\ ret.op = "updateParameters"
    /\ ret.learningRate = << >>
    /\ ret.discountFactor = << >>
    /\ ret.explorationRate = << 0 >>
    /\ explorationRate = 0
    /\ learningRate = 2
    /\ \E k \in DOMAIN qTable : \E a \in ActionSet : qTable[k][a] # 0


\* every action value the table stores
StoredValues == { qTable[k][a] : k \in DOMAIN qTable, a \in ActionSet }

\* C14: getMaxQValue() is the maximum of all the action values the table
\* stores, and 0 when the table is empty
C14_MaxQValue ==
    IF StoredValues = {} THEN getMaxQValue = 0
    ELSE /\ getMaxQValue \in StoredValues
         /\ \A v \in StoredValues : v <= getMaxQValue

\* C15: a MazeGenerator of size < 2 or of a wall density outside [0, 1]
\* produces no grid
C15_NoGridForInvalidInput ==
    gpc = "done" => (size >= 2 /\ wallDensity >= 0 /\ wallDensity <= 1000)

\* C16: a grid that createPathToGoal has repaired is returned only after
\* reachability has been checked a second time
C16_RecheckAfterRepair ==
    (gpc = "done" /\ repaired) => pathChecks >= 2


\* a position of the grid
Pos(px, py) == [x |-> px, y |-> py]

\* the path of the first episode of a fresh agent that never explores, on the
\* 3 x 3 grid without a wall
FirstPath3x3 ==
    << Pos(0, 0), Pos(0, 0), Pos(1, 0), Pos(1, 0), Pos(2, 0), Pos(2, 0), Pos(2, 0),
       Pos(2, 1), Pos(2, 0), Pos(1, 0), Pos(1, 1), Pos(1, 0), Pos(0, 0), Pos(0, 1),
       Pos(0, 0), Pos(0, 0), Pos(1, 0), Pos(2, 0), Pos(2, 1), Pos(2, 1), Pos(2, 2) >>

\* C17: on the 3 x 3 grid without a wall, start (0,0), goal (2,2), maxSteps 50,
\* the first runEpisode of a fresh agent with exploration rate 0 returns
\* success with at most 50 steps, and its path is one and the same path on
\* every run, whatever the learning rate and the discount factor
C17_FirstEpisode ==
    (EpisodeReturned /\ episodeNo = 1 /\ mazeSize = 3
       /\ maxSteps = ScenarioMaxSteps) =>
        /\ ret.success
        /\ ret.steps <= ScenarioMaxSteps
        /\ ret.finalPosition = Pos(2, 2)
        /\ ret.path = FirstPath3x3

\* the first episode on the 3 x 3 grid has returned, with learning rate and
\* discount factor 1, after 20 steps
C17_Witness ==
    /\ EpisodeReturned
    /\ episodeNo = 1
    /\ mazeSize = 3
    /\ maxSteps = ScenarioMaxSteps
    /\ learningRate = 2
    /\ discountFactor = 2
    /\ ret.success
    /\ ret.steps = 20

C19_StatsConsistent ==
    /\ stats.successfulRuns <= stats.currentEpisode
    /\ stats.currentEpisode > 0 =>
         /\ stats.successRate.num * stats.currentEpisode =
                100 * stats.successfulRuns * stats.successRate.den
         /\ stats.successRate.num >= 0
         /\ stats.successRate.num <= 100 * stats.successRate.den
         /\ stats.avgSteps.num * stats.currentEpisode =
                stats.totalSteps * stats.avgSteps.den


\* C20: a training session that startTraining began and that no pauseTraining,
\* resetTraining or generateNewMaze has interrupted stops, isTraining false,
\* after exactly totalEpisodes calls of runEpisode, each counted once in the
\* statistics
C20_SessionCompletes ==
    (stats.currentStatus = "completed" /\ ~interrupted) =>
        /\ ~stats.isTraining
        /\ sessionCalls = TotalEpisodes
        /\ stats.currentEpisode = TotalEpisodes


\* C23: a runEpisode call whose start is the goal, with a budget of at least
\* one step, returns at once: success, 0 steps, the path holding the start
\* alone, the value table as it was
C23_StartAtGoal ==
    [][(apc = "running" /\ steps = 0 /\ startPos = goalPos /\ maxSteps >= 1) =>
         /\ apc' = "idle"
         /\ ret'.success
         /\ ret'.steps = 0
         /\ ret'.path = << startPos >>
         /\ qTable' = qTable]_vars

\* C25: in an episode whose start is not the goal, no loop iteration changes
\* the entry of the goal state: an entry the table held stays as it was, and
\* an entry made for the goal holds 0 for each of the four actions
C25_GoalEntryZero ==
    [][(apc = "running" /\ startPos # goalPos) =>
         LET goalKey == getStateKey(goalPos.x, goalPos.y)
         IN  goalKey \in DOMAIN qTable' =>
               IF goalKey \in DOMAIN qTable
               THEN qTable'[goalKey] = qTable[goalKey]
               ELSE \A a \in ActionSet : qTable'[goalKey][a] = 0]_vars

\* an episode that began away from the goal has reached it: the goal has an
\* entry of four zeros beside an entry that has learned the goal reward
C25_Witness ==
    /\ EpisodeReturned
    /\ ret.success
    /\ startPos # goalPos
    /\ getStateKey(goalPos.x, goalPos.y) \in DOMAIN qTable
    /\ \A a \in ActionSet : qTable[getStateKey(goalPos.x, goalPos.y)][a] = 0
    /\ \E k \in DOMAIN qTable : \E a \in ActionSet : qTable[k][a] > 0

\* the state keys of the in-bounds OPEN cells of the agent's grid
OpenKeys == { getStateKey(c.x, c.y) : c \in { d \in Cells : OpenCell(d) } }

\* C26: when every start runEpisode is called with is an in-bounds OPEN cell,
\* every key of the value table is the position of an in-bounds OPEN cell, and
\* getStatesExplored() is at most the number of OPEN cells
C26_KeysAreOpenCells ==
    (\A s \in Starts : OpenCell(s)) =>
        /\ DOMAIN qTable \subseteq OpenKeys
        /\ getStatesExplored <= Cardinality({ d \in Cells : OpenCell(d) })

\* an attempted move onto a WALL cell of the grid was learned against the
\* state the agent stayed in, and the table holds no key of a WALL
C26_Witness ==
    /\ \A s \in Starts : OpenCell(s)
    /\ Stepped
    /\ [x |-> last.newX, y |-> last.newY] \in Cells
    /\ maze[last.newY][last.newX] = 1
    /\ last.nextState = last.state
    /\ last.state \in DOMAIN qTable
    /\ DOMAIN qTable \subseteq OpenKeys

\* C27: with learningRate and discountFactor in (0,1] and every episode
\* started away from the goal, every stored action value is at most 100 and
\* getMaxQValue() lies in [0, 100]
C27_ValuesAtMostGoalReward ==
    /\ \A v \in StoredValues : v <= 100 * Scale
    /\ getMaxQValue >= 0
    /\ getMaxQValue <= 100 * Scale

\* after several episodes from the start corner a stored value, and with it
\* getMaxQValue(), is exactly the goal reward, beside values that are the
\* discounted goal reward less the step costs
C27_Witness ==
    /\ episodeNo >= 2
    /\ startPos # goalPos
    /\ getMaxQValue = 100 * Scale
    /\ \E v \in StoredValues : v > 0 /\ v < 100 * Scale


\* the episode loops of the page that are under way: a runEpisode call in
\* progress, or a pending animation or next-episode callback
EpisodeLoops ==
    Cardinality({ i \in 1..Len(timers) : timers[i].kind \in {"step", "next"} })
    + (IF dpc.at = "episode" THEN 1 ELSE 0)

\* C21: while training is active at most one episode loop is under way, and
\* no runEpisode call is made between pauseTraining and the next startTraining
C21_SingleLoop ==
    /\ trainingActive => EpisodeLoops <= 1
    /\ dpc.at = "episode" => (trainingActive /\ ~stats.isPaused)

\* C28: the page shows the session as completed only when the episode count
\* has reached totalEpisodes
C28_CompletedOnlyAtEnd ==
    stats.currentStatus = "completed" => stats.currentEpisode = TotalEpisodes

\* C29: from the installation of a new maze and agent, requested after the
\* last startTraining, until the next startTraining, no runEpisode call is
\* made, the statistics stay at their reset values and isTraining stays false
C29_GenerateStopsTraining ==
    (stats.currentStatus = "generated" /\ interrupted) =>
        /\ dpc.at # "episode"
        /\ stats = ClearedStats("generated")

\* C30: from resetTraining until the next startTraining the episode count,
\* the total steps, the successful runs and the best time stay 0 and the value
\* table stays empty
C30_ResetStays ==
    stats.currentStatus = "reset" =>
        /\ stats.currentEpisode = 0
        /\ stats.totalSteps = 0
        /\ stats.successfulRuns = 0
        /\ stats.bestTime = 0
        /\ qTable = EmptyTable

=============================================================================
